---- MODULE Spec2Model ----
(***************************************************************************)
(* Global Healthcare Data ETL & Analysis CLI.                              *)
(*                                                                         *)
(* A model of the ETL core: the MySQLHandler store (mysql_handler.py),     *)
(* the APIClient fetcher (api_client.py), the transformer                  *)
(* (data_transformer.py), the CLI commands (main.py) and the dashboard's   *)
(* analytics block (dashboard.py).                                         *)
(*                                                                         *)
(* A Python call is modelled by its outcome: a record whose field exc is   *)
(* "none" when the call returns and the class of the exception when it     *)
(* raises.                                                                 *)
(***************************************************************************)
EXTENDS FiniteSets, Integers, Sequences, TLC

VARIABLES
    covid_stats,        \* rows of table covid_stats
    vaccination_data,   \* rows of table vaccination_data
    existing,           \* names of the tables that exist in the database
    connected,          \* self.conn.is_connected() of the MySQLHandler
    last,               \* the last call on the handler: arguments and outcome
    request,            \* APIClient: the arguments of a fetch and the upstream response
    fetched,            \* APIClient: the outcome of the fetch
    raw,                \* transformer: the records given to it
    transformed,        \* transformer: its outcome
    cli,                \* main.py: the last command, its data and its outcome
    dash                \* dashboard.py: the last analytics block shown

\* what the handler's methods do not touch
notStore == <<request, fetched, raw, transformed, cli, dash>>

\* what a fetch, a transformation, a command and the dashboard do not touch
notFetch == <<covid_stats, vaccination_data, existing, connected, last,
              raw, transformed, cli, dash>>

notTransform == <<covid_stats, vaccination_data, existing, connected, last,
                  request, fetched, cli, dash>>

notCli == <<existing, connected, last, request, fetched, raw, transformed, dash>>

\* what a command that drops tables does not touch
notDrop == <<connected, last, request, fetched, raw, transformed, dash>>

notDash == <<covid_stats, vaccination_data, existing, connected, last,
             request, fetched, raw, transformed, cli>>

vars ==
    <<covid_stats, vaccination_data, existing, connected, last, request, fetched,
      raw, transformed, cli, dash>>

(***************************************************************************)
(* Bounds and domains                                                      *)
(***************************************************************************)
MaxBatch == 2

\* dates as stored (ISO, YYYY-MM-DD): <<year, month, day>>
Jan1 == <<2021, 1, 1>>
Jan2 == <<2021, 1, 2>>

TableNames == {"covid_stats", "vaccination_data"}

\* the rows offered to insert_data: (country, date, cases, deaths, recovered)
CaseRows ==
    {<<"USA", Jan1, 1, 0, 0>>, <<"USA", Jan1, 2, 1, 1>>,
     <<"USA", Jan2, 2, 1, 1>>, <<"India", Jan1, 1, 0, 0>>}

\* a tuple of the vaccination shape, as transform_vaccine_data produces
VaccineRows == {<<"USA", Jan1, 1>>}

RECURSIVE SeqsUpTo(_, _)
SeqsUpTo(S, n) ==
    IF n = 0 THEN {<<>>}
    ELSE LET shorter == SeqsUpTo(S, n - 1)
         IN  shorter \cup {Append(s, x) : s \in {q \in shorter : Len(q) = n - 1}, x \in S}

\* the batches offered to insert_data: case tuples, or vaccination tuples
Batches == SeqsUpTo(CaseRows, MaxBatch) \cup SeqsUpTo(VaccineRows, MaxBatch)

(***************************************************************************)
(* Exceptions                                                              *)
(***************************************************************************)
\* subclasses of mysql.connector.Error
MySQLErrors == {"ProgrammingError", "OperationalError", "DatabaseError", "InterfaceError"}

\* "except mysql.connector.Error" that lets a server-side failure through
CatchesProgrammingErrorOnly(exc) == exc = "ProgrammingError"

\* what "except mysql.connector.Error" catches
CaughtByMySQLHandler(exc) == exc \in MySQLErrors

(***************************************************************************)
(* Schema (sql/create_tables.sql)                                          *)
(***************************************************************************)
Columns(table_name) ==
    IF table_name = "covid_stats"
    THEN {"country", "date", "cases", "deaths", "recovered"}
    ELSE {"country", "date", "vaccinations"}

\* the unique index on (country, date)
UniqueKey(row) == <<row[1], row[2]>>

Table(table_name) ==
    IF table_name = "covid_stats" THEN covid_stats ELSE vaccination_data

(***************************************************************************)
(* MySQLHandler.insert_data                                                *)
(***************************************************************************)
\* the columns and the number of placeholders of the INSERT statement
InsertColumns == {"country", "date", "cases", "deaths", "recovered"}

Placeholders == <<"%s", "%s", "%s", "%s", "%s">>

\* INSERT into a table without the IGNORE check: every row is added
InsertAlways(work, row) == work \cup {row}

\* INSERT IGNORE of one row: a row whose key is already there is skipped
InsertIgnore(work, row) ==
    IF \E r \in work : UniqueKey(r) = UniqueKey(row) THEN work ELSE work \cup {row}

\* the rows of the statement, in order, inside the open transaction; the
\* server fails at row failAt (0: it does not fail)
RECURSIVE ExecRows(_, _, _, _)
ExecRows(work, data, i, failAt) ==
    IF i > Len(data) THEN [exc |-> "none", work |-> work]
    ELSE IF i = failAt THEN [exc |-> "DatabaseError", work |-> work]
    ELSE ExecRows(InsertIgnore(work, data[i]), data, i + 1, failAt)

\* self.cursor.executemany(query, data): nothing is sent for an empty batch
executemany(table_name, data, isConnected, failAt) ==
    LET pre == Table(table_name) IN
    IF data = <<>> THEN [exc |-> "none", work |-> pre]
    ELSE IF ~isConnected THEN [exc |-> "OperationalError", work |-> pre]
    ELSE IF \E i \in 1..Len(data) : Len(data[i]) # Len(Placeholders)
         THEN [exc |-> "ProgrammingError", work |-> pre]
    ELSE IF table_name \notin existing THEN [exc |-> "ProgrammingError", work |-> pre]
    ELSE IF ~(InsertColumns \subseteq Columns(table_name))
         THEN [exc |-> "ProgrammingError", work |-> pre]
    ELSE ExecRows(pre, data, 1, failAt)

\* self.conn.commit() and self.conn.rollback(): neither statement can be
\* sent on a dead connection
commit(isConnected) == IF isConnected THEN "none" ELSE "OperationalError"

rollback(isConnected) == IF isConnected THEN "none" ELSE "OperationalError"

\* the outcome of insert_data on the table: its rows afterwards, the error
\* inside the try block and the exception that leaves the method
InsertOutcome(table_name, data, isConnected, failAt) ==
    LET ex    == executemany(table_name, data, isConnected, failAt)
        error == IF ex.exc = "none" THEN commit(isConnected) ELSE ex.exc
    IN  [error |-> error,
         \* try: executemany; commit   except mysql.connector.Error: rollback
         exc   |-> IF error = "none" THEN "none"
                   ELSE IF CaughtByMySQLHandler(error) THEN rollback(isConnected)
                   ELSE error,
         \* commit publishes the transaction; rollback, or the lost session,
         \* discards it
         rows  |-> IF error = "none" THEN ex.work ELSE Table(table_name)]

Faults == {"none", "write_error", "connection_lost"}

\* some row of the batch meets a stored row with its key and other values
MeetsStored(table_name, data) ==
    \E i \in 1..Len(data) : \E r \in Table(table_name) :
        UniqueKey(r) = UniqueKey(data[i]) /\ r # data[i]

\* some row of the batch repeats the key of an earlier row of the batch
RepeatsKey(data) ==
    \E i, j \in 1..Len(data) : i < j /\ UniqueKey(data[i]) = UniqueKey(data[j])

insert_data(table_name, data, fault, failAt) ==
    LET conn == connected /\ fault # "connection_lost"
        out  == InsertOutcome(table_name, data, conn,
                              IF fault = "write_error" THEN failAt ELSE 0)
    IN  /\ covid_stats' = IF table_name = "covid_stats" THEN out.rows ELSE covid_stats
        /\ vaccination_data' =
               IF table_name = "vaccination_data" THEN out.rows ELSE vaccination_data
        /\ connected' = conn
        /\ last' = [op |-> "insert_data", table |-> table_name, fault |-> fault,
                    error |-> out.error, exc |-> out.exc, result |-> <<>>,
                    reStored |-> MeetsStored(table_name, data),
                    reBatch |-> RepeatsKey(data)]
        /\ UNCHANGED <<existing, notStore>>

InsertData ==
    \E table_name \in TableNames, data \in Batches, fault \in Faults, failAt \in 1..MaxBatch :
        /\ fault = "write_error" => failAt <= Len(data)
        /\ fault # "write_error" => failAt = 1
        /\ insert_data(table_name, data, fault, failAt)

(***************************************************************************)
(* MySQLHandler.query and the statements of main.py                        *)
(***************************************************************************)
DateLE(a, b) ==
    \/ a[1] < b[1]
    \/ a[1] = b[1] /\ a[2] < b[2]
    \/ a[1] = b[1] /\ a[2] = b[2] /\ a[3] <= b[3]

Metrics == {"cases", "deaths", "recovered"}

MetricOf(row, metric) ==
    IF metric = "cases" THEN row[3] ELSE IF metric = "deaths" THEN row[4] ELSE row[5]

RECURSIVE SumMetric(_, _)
SumMetric(rows, metric) ==
    IF rows = {} THEN 0
    ELSE LET r == CHOOSE x \in rows : TRUE
         IN  MetricOf(r, metric) + SumMetric(rows \ {r}, metric)

\* the statements query_data builds: the metric is pasted into the text,
\* so a metric that is no column makes a statement the server rejects
Statements ==
    [sql : {"daily_trends"}, metric : Metrics \cup {"bogus"}]
        \cup {[sql |-> "total_cases", metric |-> "cases"],
              [sql |-> "malformed", metric |-> "cases"]}

\* %s markers of the statement
Markers(stmt) ==
    IF stmt.sql \in {"daily_trends", "top_n_countries_by_metric"} THEN 1 ELSE 0

\* params: None, a tuple, or a value that is no list, tuple or dict
ParamValues ==
    {[type |-> "None", values |-> <<>>], [type |-> "str", values |-> <<>>]}
        \cup [type : {"tuple"}, values : {<<>>, <<"USA">>, <<"India">>, <<"USA", "India">>}]

\* SELECT date, {metric} FROM covid_stats WHERE country = %s ORDER BY date
DailyTrends(country, metric) ==
    LET rows == {r \in covid_stats : r[1] = country}
        pairs == {<<r[2], MetricOf(r, metric)>> : r \in rows}
    IN  SortSeq(CHOOSE q \in [1..Cardinality(pairs) -> pairs] :
                    \A x \in pairs : \E i \in 1..Cardinality(pairs) : q[i] = x,
                LAMBDA a, b : a[1] # b[1] /\ DateLE(a[1], b[1]))

\* SELECT country, SUM(cases) FROM covid_stats GROUP BY country
\* ORDER BY total_cases DESC: every order the server may give to ties
TotalCases ==
    LET groups == {<<c, SumMetric({r \in covid_stats : r[1] = c}, "cases")>> :
                       c \in {r[1] : r \in covid_stats}}
        n == Cardinality(groups)
    IN  {q \in [1..n -> groups] :
            /\ \A x \in groups : \E i \in 1..n : q[i] = x
            /\ \A i \in 1..n, j \in 1..n : i < j => q[i][2] >= q[j][2]}

\* SELECT country, SUM({metric}) AS total FROM covid_stats GROUP BY country
\* ORDER BY total DESC: every order the server may give to ties
TotalsBy(metric) ==
    LET groups == {<<c, SumMetric({r \in covid_stats : r[1] = c}, metric)>> :
                       c \in {r[1] : r \in covid_stats}}
        n == Cardinality(groups)
    IN  {q \in [1..n -> groups] :
            /\ \A x \in groups : \E i \in 1..n : q[i] = x
            /\ \A i \in 1..n, j \in 1..n : i < j => q[i][2] >= q[j][2]}

\* a statement without its LIMIT clause: every row is returned
NoLimit(rows, n) == rows

\* LIMIT n: the first n rows
Limit(rows, n) == IF n < Len(rows) THEN SubSeq(rows, 1, n) ELSE rows

\* ... ORDER BY total DESC LIMIT %s
TopN(metric, n) == {Limit(q, n) : q \in TotalsBy(metric)}

\* LIMIT takes a non-negative integer literal; the connector writes None
\* as NULL and a negative number with its sign, which the server rejects
IsLimit(value) == value.type = "int" /\ value.num >= 0

\* self.cursor.execute(query, params or ()); self.cursor.fetchall()
\* the exception of the call, "none" when it returns rows
ExecuteError(stmt, params, isConnected) ==
    LET p == params.values IN
    IF ~isConnected THEN "OperationalError"
    ELSE IF params.type \notin {"None", "tuple"} THEN "ProgrammingError"
    ELSE IF p # <<>> /\ Len(p) # Markers(stmt) THEN "ProgrammingError"
    ELSE IF p = <<>> /\ Markers(stmt) # 0 THEN "ProgrammingError"
    ELSE IF stmt.sql = "malformed" THEN "ProgrammingError"
    ELSE IF stmt.sql = "top_n_countries_by_metric" /\ ~IsLimit(p[1]) THEN "ProgrammingError"
    ELSE IF stmt.metric \notin Columns("covid_stats") THEN "ProgrammingError"
    ELSE IF "covid_stats" \notin existing THEN "ProgrammingError"
    ELSE "none"

\* the outcome of query(): what the caller gets
QueryOutcome(error, rows) ==
    IF error = "none" THEN [exc |-> "none", result |-> rows]
    \* except mysql.connector.Error: return []
    ELSE IF CaughtByMySQLHandler(error) THEN [exc |-> "none", result |-> <<>>]
    ELSE [exc |-> error, result |-> <<>>]

\* the rows self.cursor.fetchall() may return
QueryRows(stmt, params, error) ==
    IF error # "none" THEN {<<>>}
    ELSE IF stmt.sql = "total_cases" THEN TotalCases
    ELSE IF stmt.sql = "top_n_countries_by_metric"
         THEN TopN(stmt.metric, params.values[1].num)
    ELSE {DailyTrends(params.values[1], stmt.metric)}

query(stmt, params, fault) ==
    LET conn  == connected /\ fault # "connection_lost"
        error == ExecuteError(stmt, params, conn)
    IN  \E rows \in QueryRows(stmt, params, error) :
            LET out == QueryOutcome(error, rows)
            IN  /\ last' = [op |-> "query", table |-> "covid_stats", fault |-> fault,
                            error |-> error, exc |-> out.exc, result |-> out.result,
                            reStored |-> FALSE, reBatch |-> FALSE]
                /\ connected' = conn
                /\ UNCHANGED <<covid_stats, vaccination_data, existing, notStore>>

Query ==
    \E stmt \in Statements, params \in ParamValues, fault \in {"none", "connection_lost"} :
        query(stmt, params, fault)

(***************************************************************************)
(* Connection and tables                                                   *)
(***************************************************************************)
Called(op) == [op |-> op, table |-> "none", fault |-> "none",
               error |-> "none", exc |-> "none", result |-> <<>>,
               reStored |-> FALSE, reBatch |-> FALSE]

\* MySQLHandler(): a handler with a fresh connection
Connect ==
    /\ ~connected
    /\ connected' = TRUE
    /\ last' = Called("connect")
    /\ UNCHANGED <<covid_stats, vaccination_data, existing, notStore>>

\* MySQLHandler.close
close ==
    /\ connected' = FALSE
    /\ last' = [Called("close") EXCEPT !.result = IF connected THEN <<"closed">> ELSE <<>>]
    /\ UNCHANGED <<covid_stats, vaccination_data, existing, notStore>>

\* MySQLHandler.create_tables: the script creates the tables that are missing
create_tables ==
    /\ connected
    /\ existing # TableNames
    /\ existing' = TableNames
    /\ last' = Called("create_tables")
    /\ UNCHANGED <<covid_stats, vaccination_data, connected, notStore>>

\* main.drop_table, on a connection of its own: DROP TABLE IF EXISTS; commit
drop_table(table) ==
    /\ existing' = existing \ {table}
    /\ covid_stats' = IF table = "covid_stats" THEN {} ELSE covid_stats
    /\ vaccination_data' = IF table = "vaccination_data" THEN {} ELSE vaccination_data
    /\ last' = [Called("drop_table") EXCEPT !.table = table]
    /\ UNCHANGED <<connected, notStore>>

DropTable == \E table \in TableNames : drop_table(table)

(***************************************************************************)
(* Specification of the store                                              *)
(***************************************************************************)
\* no fetch is in progress
NoTimeline == [cases |-> <<>>, deaths |-> <<>>, recovered |-> <<>>, flat |-> <<>>]

NoRequest ==
    [op |-> "none", country |-> "none", start_date |-> <<>>, end_date |-> <<>>,
     response |-> [kind |-> "none", timeline |-> NoTimeline]]

NotFetched == [op |-> "none", exc |-> "none", result |-> <<>>]

FetchIdle == request = NoRequest /\ fetched = NotFetched

NotTransformed == [op |-> "none", exc |-> "none", result |-> <<>>]

NoRaw == [op |-> "none", data |-> <<>>]

TransformIdle == raw = NoRaw /\ transformed = NotTransformed

\* no arguments of a query command; None is a value of type NoneType
NoArgs ==
    [query_type |-> "none", country |-> "none", metric |-> "none",
     n |-> [type |-> "NoneType", num |-> 0, text |-> ""]]

NoCommand ==
    [cmd |-> "none", exc |-> "none", fetched |-> <<>>, transformed |-> <<>>,
     args |-> NoArgs, results |-> <<>>, lost |-> FALSE, closed |-> FALSE,
     open |-> FALSE]

CliIdle == cli = NoCommand

NotShown == [op |-> "none", result |-> {}]

DashIdle == dash = NotShown

StoreInit ==
    /\ covid_stats = {}
    /\ vaccination_data = {}
    /\ existing = TableNames
    /\ connected = TRUE
    /\ last = Called("none")

Init ==
    /\ StoreInit
    /\ FetchIdle
    /\ TransformIdle
    /\ CliIdle
    /\ DashIdle

Next ==
    \/ InsertData
    \/ Query
    \/ Connect
    \/ close
    \/ create_tables
    \/ DropTable

Spec == Init /\ [][Next]_vars

(***************************************************************************)
(* Properties of the store                                                 *)
(***************************************************************************)
\* C1: after any sequence of insert_data batches, covid_stats and
\* vaccination_data hold at most one row per (country, date) pair.
C1_OneRowPerKey ==
    \A t \in TableNames : \A r1, r2 \in Table(t) :
        UniqueKey(r1) = UniqueKey(r2) => r1 = r2

\* a batch that repeats a key within itself and repeats a stored key with
\* other values has been committed
C1_Witness ==
    /\ last.op = "insert_data" /\ last.table = "covid_stats"
    /\ last.error = "none" /\ last.exc = "none"
    /\ last.reStored /\ last.reBatch
    /\ Cardinality(covid_stats) >= 2

\* C2: re-inserting a row whose (country, date) is stored leaves the stored
\* row as first written and does not raise; a stored row is changed or
\* removed by no insert and no query, only by a table drop.
C2_ReinsertKeepsRowAndReturns ==
    [][/\ \A t \in TableNames : \A r \in Table(t) :
              r \in Table(t)' \/ (last'.op = "drop_table" /\ last'.table = t)
       /\ (last'.op = "insert_data" /\ last'.reStored) => last'.exc = "none"]_vars

\* a row of the batch is not a duplicate when its key is neither stored
\* nor the key of an earlier row of the batch
NonDuplicate(table_name, data, i) ==
    /\ \A r \in Table(table_name) : UniqueKey(r) # UniqueKey(data[i])
    /\ \A j \in 1..(i - 1) : UniqueKey(data[j]) # UniqueKey(data[i])

\* C4: insert_data is all-or-nothing: after a write error the table is as it
\* was before the call and no exception reaches the caller; without an
\* error every non-duplicate row of the batch is in the table.
C4_AllOrNothing ==
    [][\A table_name \in TableNames, data \in Batches :
          \A fault \in Faults, failAt \in 1..MaxBatch :
              insert_data(table_name, data, fault, failAt) =>
                  /\ last'.error # "none" =>
                         /\ Table(table_name)' = Table(table_name)
                         /\ last'.exc = "none"
                  /\ last'.error = "none" =>
                         \A i \in 1..Len(data) :
                             NonDuplicate(table_name, data, i)
                                 => data[i] \in Table(table_name)']_vars

\* C7: query returns an empty sequence and does not raise whenever the
\* read statement fails to execute, and it leaves the tables as they were.
C7_QueryFailsSoft ==
    [][last'.op = "query" =>
          /\ covid_stats' = covid_stats
          /\ vaccination_data' = vaccination_data
          /\ existing' = existing
          /\ last'.error # "none" => (last'.exc = "none" /\ last'.result = <<>>)]_vars

\* a query on a closed connection, with rows stored, gave the empty sequence
C7_Witness ==
    /\ last.op = "query" /\ last.error = "OperationalError"
    /\ last.exc = "none" /\ last.result = <<>>
    /\ ~connected /\ covid_stats # {}

(***************************************************************************)
(* Python values and conversions                                           *)
(***************************************************************************)
\* a JSON value as Python holds it: an int, a float (in tenths, or the
\* special values "inf" and "nan" in text), a str, None or a list
PyValue(type, num, text) == [type |-> type, num |-> num, text |-> text]

PyIntValue(n) == PyValue("int", n, "")

PyStr(text) == PyValue("str", 0, text)

PyNone == PyValue("NoneType", 0, "")

\* a dict record of the fetcher: its five keys, and the keys it lacks
PyDict(country, date, cases, deaths, recovered, missing) ==
    [missing |-> missing, date |-> date, country |-> country,
     cases |-> cases, deaths |-> deaths, recovered |-> recovered]

\* a vaccination record: a tuple of its items, a dict of the keys country,
\* date and vaccinations (items in that order, missing the keys it lacks),
\* or a list
PyTuple(items) == [type |-> "tuple", items |-> items, missing |-> {}]

PyVaccineDict(country, date, vaccinations, missing) ==
    [type |-> "dict", items |-> <<country, date, vaccinations>>, missing |-> missing]

PyList(items) == [type |-> "list", items |-> items, missing |-> {}]

\* None in the date column
NoDate == <<>>

\* the strings that int() accepts, with their values
IntLiterals == {<<"12", 12>>, <<" 7 ", 7>>}

\* int(): towards zero for a float
Truncate(tenths) == IF tenths >= 0 THEN tenths \div 10 ELSE -((-tenths) \div 10)

\* int(value): the integer, or the exception int() raises
PyInt(value) ==
    IF value.type = "int" THEN [exc |-> "none", val |-> value.num]
    ELSE IF value.type = "float" THEN
        IF value.text = "inf" THEN [exc |-> "OverflowError", val |-> 0]
        ELSE IF value.text = "nan" THEN [exc |-> "ValueError", val |-> 0]
        ELSE [exc |-> "none", val |-> Truncate(value.num)]
    ELSE IF value.type = "str" THEN
        IF \E l \in IntLiterals : l[1] = value.text
        THEN [exc |-> "none", val |-> (CHOOSE l \in IntLiterals : l[1] = value.text)[2]]
        ELSE [exc |-> "ValueError", val |-> 0]
    ELSE [exc |-> "TypeError", val |-> 0]

(***************************************************************************)
(* Dates: datetime.strptime and strftime                                   *)
(***************************************************************************)
IsLeap(y) == (y % 4 = 0 /\ y % 100 # 0) \/ y % 400 = 0

DaysInMonth(y, m) ==
    IF m = 2 THEN (IF IsLeap(y) THEN 29 ELSE 28)
    ELSE IF m \in {4, 6, 9, 11} THEN 30 ELSE 31

ValidDate(y, m, d) == m \in 1..12 /\ d >= 1 /\ d <= DaysInMonth(y, m)

\* %y: two digits; 69..99 are 1969..1999 and 00..68 are 2000..2068
TwoDigitYear(yy) == IF yy < 69 THEN 2000 + yy ELSE 1900 + yy

\* an upstream date key "M/D/YY": its three numbers as written, whether
\* they are zero-padded ("01/02/21"), and the digits of its year
DateKey(m, d, y, padded) == [m |-> m, d |-> d, y |-> y, padded |-> padded]

\* datetime.strptime(date_str, "%m/%d/%y")
ParseMDY(key) ==
    IF key.y \notin 0..99 THEN [exc |-> "ValueError", date |-> <<0, 0, 0>>]
    ELSE IF ~ValidDate(TwoDigitYear(key.y), key.m, key.d)
         THEN [exc |-> "ValueError", date |-> <<0, 0, 0>>]
    ELSE [exc |-> "none", date |-> <<TwoDigitYear(key.y), key.m, key.d>>]

\* a start_date / end_date argument "Y-M-D"; wellFormed is FALSE for a
\* string of another shape ("2021/01/01", "yesterday")
DateArg(y, m, d, wellFormed) == [y |-> y, m |-> m, d |-> d, wellFormed |-> wellFormed]

\* datetime.strptime(start_date, "%Y-%m-%d")
ParseISO(arg) ==
    IF ~arg.wellFormed \/ arg.y \notin 1..9999 \/ ~ValidDate(arg.y, arg.m, arg.d)
    THEN [exc |-> "ValueError", date |-> <<0, 0, 0>>]
    ELSE [exc |-> "none", date |-> <<arg.y, arg.m, arg.d>>]

\* date_obj.strftime("%Y-%m-%d"): the stored form <<year, month, day>>
FormatISO(date) == <<date[1], date[2], date[3]>>

\* start < date_obj <= end
InRangeOpenStart(start, date, end) ==
    DateLE(start, date) /\ start # date /\ DateLE(date, end)

\* start <= date_obj <= end on datetime objects
InRange(start, date, end) == DateLE(start, date) /\ DateLE(date, end)

(***************************************************************************)
(* APIClient                                                               *)
(***************************************************************************)
\* subclasses of requests.exceptions.RequestException
RequestExceptions == {"ConnectionError", "HTTPError"}

\* "except requests.exceptions.ConnectionError": an error status gets through
CatchesConnectionErrorOnly(exc) == exc = "ConnectionError"

\* what "except requests.exceptions.RequestException" catches
CaughtByAPIClient(exc) == exc \in RequestExceptions

\* a dict as the sequence of its <<key, value>> items, in insertion order
DictKeys(dict) == {dict[i][1] : i \in 1..Len(dict)}

\* dict.get(key, default)
DictGet(dict, key, default) ==
    IF key \in DictKeys(dict)
    THEN (dict[CHOOSE i \in 1..Len(dict) : dict[i][1] = key])[2]
    ELSE default

\* requests.get(url); response.raise_for_status(); response.json()
ResponseError(response) ==
    IF response.kind = "transport_error" THEN "ConnectionError"
    ELSE IF response.kind = "http_error" THEN "HTTPError"
    ELSE "none"

\* the loop of fetch_data over the keys of timeline['cases']
RECURSIVE FilterCases(_, _, _, _, _)
FilterCases(timeline, i, country, start, end) ==
    IF i > Len(timeline.cases) THEN <<>>
    ELSE LET date_str == timeline.cases[i][1]
             parsed   == ParseMDY(date_str)
             rest     == FilterCases(timeline, i + 1, country, start, end)
         IN  IF parsed.exc # "none" THEN rest
             ELSE IF InRange(start, parsed.date, end)
             THEN <<[missing |-> {},
                     date |-> FormatISO(parsed.date),
                     country |-> country,
                     cases |-> DictGet(timeline.cases, date_str, PyIntValue(0)),
                     deaths |-> DictGet(timeline.deaths, date_str, PyIntValue(0)),
                     recovered |-> DictGet(timeline.recovered, date_str, PyIntValue(0))]>>
                  \o rest
             ELSE rest

\* the body of the try block of fetch_data
FetchDataBody(country, start_date, end_date, response) ==
    IF ResponseError(response) # "none"
    THEN [exc |-> ResponseError(response), result |-> <<>>]
    ELSE IF response.kind = "no_timeline" THEN [exc |-> "none", result |-> <<>>]
    ELSE LET start == ParseISO(start_date)
             end   == ParseISO(end_date)
         IN  IF start.exc # "none" THEN [exc |-> start.exc, result |-> <<>>]
             ELSE IF end.exc # "none" THEN [exc |-> end.exc, result |-> <<>>]
             ELSE [exc |-> "none",
                   result |-> FilterCases(response.timeline, 1, country,
                                          start.date, end.date)]

\* APIClient.fetch_data
FetchData(country, start_date, end_date, response) ==
    LET body == FetchDataBody(country, start_date, end_date, response)
    IN  IF CaughtByAPIClient(body.exc) THEN [exc |-> "none", result |-> <<>>] ELSE body

\* the loop of fetch_vaccine_data without its "except ValueError: continue":
\* a key that does not parse ends the fetch
RECURSIVE FilterVaccineRaising(_, _, _, _, _)
FilterVaccineRaising(vaccinations, i, country, start, end) ==
    IF i > Len(vaccinations) THEN [exc |-> "none", result |-> <<>>]
    ELSE LET date_str == vaccinations[i][1]
             parsed   == ParseMDY(date_str)
             rest     == FilterVaccineRaising(vaccinations, i + 1, country, start, end)
             count    == PyInt(vaccinations[i][2])
         IN  IF parsed.exc # "none" THEN [exc |-> parsed.exc, result |-> <<>>]
             ELSE IF ~InRange(start, parsed.date, end) THEN rest
             ELSE IF count.exc # "none" THEN [exc |-> count.exc, result |-> <<>>]
             ELSE IF rest.exc # "none" THEN rest
             ELSE [exc |-> "none",
                   result |-> <<PyTuple(<<country, FormatISO(parsed.date),
                                            PyIntValue(count.val)>>)>>
                                  \o rest.result]

\* the loop of fetch_vaccine_data over the items of the timeline; the
\* result so far is lost when int(value) raises
RECURSIVE FilterVaccine(_, _, _, _, _)
FilterVaccine(vaccinations, i, country, start, end) ==
    IF i > Len(vaccinations) THEN [exc |-> "none", result |-> <<>>]
    ELSE LET date_str == vaccinations[i][1]
             parsed   == ParseMDY(date_str)
             rest     == FilterVaccine(vaccinations, i + 1, country, start, end)
             count    == PyInt(vaccinations[i][2])
         IN  IF parsed.exc # "none" THEN rest
             ELSE IF ~InRange(start, parsed.date, end) THEN rest
             ELSE IF count.exc # "none" THEN [exc |-> count.exc, result |-> <<>>]
             ELSE IF rest.exc # "none" THEN rest
             ELSE [exc |-> "none",
                   result |-> <<PyTuple(<<country, FormatISO(parsed.date),
                                            PyIntValue(count.val)>>)>>
                                  \o rest.result]

\* the body of the try block of fetch_vaccine_data
FetchVaccineBody(country, start_date, end_date, response) ==
    IF ResponseError(response) # "none"
    THEN [exc |-> ResponseError(response), result |-> <<>>]
    ELSE IF response.kind = "no_timeline" THEN [exc |-> "none", result |-> <<>>]
    ELSE LET start == ParseISO(start_date)
             end   == ParseISO(end_date)
         IN  IF start.exc # "none" THEN [exc |-> start.exc, result |-> <<>>]
             ELSE IF end.exc # "none" THEN [exc |-> end.exc, result |-> <<>>]
             ELSE FilterVaccine(response.timeline.flat, 1, country,
                                start.date, end.date)

\* APIClient.fetch_vaccine_data
FetchVaccineData(country, start_date, end_date, response) ==
    LET body == FetchVaccineBody(country, start_date, end_date, response)
    IN  IF CaughtByAPIClient(body.exc) THEN [exc |-> "none", result |-> <<>>] ELSE body

(***************************************************************************)
(* Specification of the fetcher                                            *)
(***************************************************************************)
MaxTimeline == 2

\* upstream date keys: "1/1/21", "01/01/21", "1/2/21", "12/31/20", "2/30/21"
UpstreamKeys ==
    {DateKey(1, 1, 21, FALSE), DateKey(1, 1, 21, TRUE), DateKey(1, 2, 21, FALSE),
     DateKey(12, 31, 20, FALSE), DateKey(2, 30, 21, FALSE)}

\* upstream counts: 1 and "abc"
UpstreamValues == {PyIntValue(1), PyValue("str", 0, "abc")}

\* the dicts of at most n items over the keys and values above
Dicts(n) ==
    {q \in SeqsUpTo(UpstreamKeys \X UpstreamValues, n) :
        \A i, j \in 1..Len(q) : i # j => q[i][1] # q[j][1]}

\* timeline['deaths'] and timeline['recovered']: empty, or one date
SideDicts == {<<>>, <<<<DateKey(1, 1, 21, FALSE), PyIntValue(1)>>>>}

\* what the remote source answers to a case request and to a vaccination request
CaseResponses ==
    [kind : {"transport_error", "http_error", "no_timeline"}, timeline : {NoTimeline}]
        \cup [kind : {"ok"},
              timeline : [cases : Dicts(MaxTimeline), deaths : SideDicts,
                          recovered : SideDicts, flat : {<<>>}]]

VaccineResponses ==
    [kind : {"transport_error", "http_error", "no_timeline"}, timeline : {NoTimeline}]
        \cup [kind : {"ok"},
              timeline : [cases : {<<>>}, deaths : {<<>>}, recovered : {<<>>},
                          flat : Dicts(MaxTimeline)]]

\* "2020-12-31", "2021-01-01", "2021-01-02" and a string that is no date
DateArgs ==
    {DateArg(2020, 12, 31, TRUE), DateArg(2021, 1, 1, TRUE), DateArg(2021, 1, 2, TRUE),
     DateArg(2021, 1, 1, FALSE)}

Requests ==
    [op : {"fetch_data"}, country : {"USA"}, start_date : DateArgs, end_date : DateArgs,
     response : CaseResponses]
        \cup [op : {"fetch_vaccine_data"}, country : {"USA"}, start_date : DateArgs,
              end_date : DateArgs, response : VaccineResponses]

FetchInit ==
    /\ StoreInit
    /\ TransformIdle
    /\ CliIdle
    /\ DashIdle
    /\ request \in Requests
    /\ fetched = NotFetched

FetchCases ==
    /\ request.op = "fetch_data"
    /\ fetched.op = "none"
    /\ LET out == FetchData(request.country, request.start_date, request.end_date,
                            request.response)
       IN  fetched' = [op |-> "fetch_data", exc |-> out.exc, result |-> out.result]
    /\ UNCHANGED <<notFetch, request>>

FetchVaccine ==
    /\ request.op = "fetch_vaccine_data"
    /\ fetched.op = "none"
    /\ LET out == FetchVaccineData(request.country, request.start_date,
                                   request.end_date, request.response)
       IN  fetched' = [op |-> "fetch_vaccine_data", exc |-> out.exc, result |-> out.result]
    /\ UNCHANGED <<notFetch, request>>

FetchNext == FetchCases \/ FetchVaccine

SpecFetch == FetchInit /\ [][FetchNext]_vars

(***************************************************************************)
(* Properties of the fetcher                                               *)
(***************************************************************************)
\* a calendar date as a number that grows with the date
DayNumber(date) == date[1] * 372 + date[2] * 31 + date[3]

\* the keys of the upstream cases timeline that are dates within
\* [start, end], bounds included
KeysWithin(dict, start, end) ==
    {k \in DictKeys(dict) :
        /\ ParseMDY(k).exc = "none"
        /\ DayNumber(start) <= DayNumber(ParseMDY(k).date)
        /\ DayNumber(ParseMDY(k).date) <= DayNumber(end)}

\* C3: for start <= end, every record of fetch_data has a date within
\* [start, end] as calendar dates, bounds included, and every parseable
\* key of the cases timeline within [start, end] is in the result.
C3_FetchFiltersByDate ==
    (/\ fetched.op = "fetch_data"
     /\ request.response.kind = "ok"
     /\ ParseISO(request.start_date).exc = "none"
     /\ ParseISO(request.end_date).exc = "none"
     /\ DayNumber(ParseISO(request.start_date).date)
            <= DayNumber(ParseISO(request.end_date).date))
    => LET start  == ParseISO(request.start_date).date
           end    == ParseISO(request.end_date).date
           cases  == request.response.timeline.cases
           within == KeysWithin(cases, start, end)
       IN  /\ fetched.exc = "none"
           /\ \A i \in 1..Len(fetched.result) :
                  /\ DayNumber(start) <= DayNumber(fetched.result[i].date)
                  /\ DayNumber(fetched.result[i].date) <= DayNumber(end)
           /\ \A k \in within : \E i \in 1..Len(fetched.result) :
                  /\ fetched.result[i].date =
                         <<TwoDigitYear(k.y), k.m, k.d>>
                  /\ fetched.result[i].cases = DictGet(cases, k, PyIntValue(0))
           /\ Len(fetched.result) = Cardinality(within)

\* a fetch over [start, end] with start < end returned the record of the
\* start date and left out a key of the timeline
C3_Witness ==
    /\ fetched.op = "fetch_data" /\ fetched.exc = "none"
    /\ request.response.kind = "ok"
    /\ request.start_date = DateArg(2021, 1, 1, TRUE)
    /\ request.end_date = DateArg(2021, 1, 2, TRUE)
    /\ Len(fetched.result) = 1
    /\ fetched.result[1].date = <<2021, 1, 1>>
    /\ Len(request.response.timeline.cases) = 2

\* C5: no core operation raises to its caller, whatever the input and
\* whatever fails.
C5_CoreNeverRaises ==
    /\ fetched.exc = "none"
    /\ transformed.exc = "none"
    /\ last.exc = "none"

\* C6: fetch_data and fetch_vaccine_data return the empty sequence, and do
\* not raise, when the request fails or the body has no 'timeline'; the
\* outcome is that of a successful fetch with no date in range.
C6_FetchFailsSoft ==
    (fetched.op # "none"
        /\ request.response.kind \in {"transport_error", "http_error", "no_timeline"})
    => /\ fetched.exc = "none"
       /\ fetched.result = <<>>
       /\ [exc |-> fetched.exc, result |-> fetched.result]
              = FetchData(request.country, DateArg(2021, 1, 2, TRUE),
                          DateArg(2021, 1, 2, TRUE),
                          [kind |-> "ok",
                           timeline |-> [NoTimeline EXCEPT !.cases =
                               <<<<DateKey(1, 1, 21, FALSE), PyIntValue(1)>>>>]])

\* a vaccination fetch whose request got an error status, with a start date
\* that is no date, returned the empty sequence
C6_Witness ==
    /\ fetched.op = "fetch_vaccine_data"
    /\ request.response.kind = "http_error"
    /\ ~request.start_date.wellFormed
    /\ fetched.exc = "none" /\ fetched.result = <<>>

\* a timeline dict without the keys that do not parse as M/D/YY
Parseable(kv) == ParseMDY(kv[1]).exc = "none"

WithoutUnparseable(timeline) ==
    [cases     |-> SelectSeq(timeline.cases, Parseable),
     deaths    |-> SelectSeq(timeline.deaths, Parseable),
     recovered |-> SelectSeq(timeline.recovered, Parseable),
     flat      |-> SelectSeq(timeline.flat, Parseable)]

\* the dates of the records of a case fetch and of a vaccination fetch
CaseDates(result) == [i \in 1..Len(result) |-> result[i].date]

VaccineDates(result) == [i \in 1..Len(result) |-> result[i].items[2]]

\* C12: in fetch_data and fetch_vaccine_data a date key that does not parse
\* as M/D/YY is skipped and does not end the fetch: the outcome is the one
\* of the same fetch over the timeline without that key, so every other
\* entry in range is returned as it would be; and both fetchers keep the
\* same keys of a timeline.
C12_UnparseableKeySkipped ==
    (fetched.op # "none" /\ request.response.kind = "ok") =>
        LET outcome  == [exc |-> fetched.exc, result |-> fetched.result]
            timeline == request.response.timeline
            cleaned  == [request.response EXCEPT !.timeline = WithoutUnparseable(timeline)]
            asFlat   == [request.response EXCEPT !.timeline =
                            [NoTimeline EXCEPT !.flat = timeline.cases]]
            asCases  == [request.response EXCEPT !.timeline =
                            [NoTimeline EXCEPT !.cases = timeline.flat]]
        IN  /\ fetched.op = "fetch_data" =>
                   /\ outcome = FetchData(request.country, request.start_date,
                                          request.end_date, cleaned)
                   /\ LET other == FetchVaccineData(request.country, request.start_date,
                                                    request.end_date, asFlat)
                      IN  (outcome.exc = "none" /\ other.exc = "none") =>
                              CaseDates(outcome.result) = VaccineDates(other.result)
            /\ fetched.op = "fetch_vaccine_data" =>
                   /\ outcome = FetchVaccineData(request.country, request.start_date,
                                                 request.end_date, cleaned)
                   /\ LET other == FetchData(request.country, request.start_date,
                                             request.end_date, asCases)
                      IN  (outcome.exc = "none" /\ other.exc = "none") =>
                              VaccineDates(outcome.result) = CaseDates(other.result)

\* a vaccination fetch over "2/30/21" with the count "abc" and a date in
\* range returned the record of the date in range
C12_Witness ==
    /\ fetched.op = "fetch_vaccine_data" /\ fetched.exc = "none"
    /\ request.response.kind = "ok"
    /\ \E i \in 1..Len(request.response.timeline.flat) :
           /\ request.response.timeline.flat[i][1] = DateKey(2, 30, 21, FALSE)
           /\ request.response.timeline.flat[i][2] = PyStr("abc")
    /\ Len(request.response.timeline.flat) = 2
    /\ Len(fetched.result) = 1

(***************************************************************************)
(* data_transformer                                                        *)
(***************************************************************************)
\* try: x = int(v)  except (TypeError, ValueError): x = 0
Coerce(value) ==
    IF PyInt(value).exc \in {"TypeError", "ValueError"}
    THEN [exc |-> "none", val |-> 0]
    ELSE PyInt(value)

\* record.get(key, default) on a dict record of the fetcher
RecordGet(record, key, default) ==
    IF key \in record.missing THEN default
    ELSE IF key = "country" THEN record.country
    ELSE IF key = "date" THEN record.date
    ELSE IF key = "cases" THEN record.cases
    ELSE IF key = "deaths" THEN record.deaths
    ELSE record.recovered

\* one turn of the loop of transform_data
TransformRecord(record) ==
    LET country   == RecordGet(record, "country", "Unknown")
        date      == RecordGet(record, "date", NoDate)
        cases     == Coerce(RecordGet(record, "cases", PyIntValue(0)))
        deaths    == Coerce(RecordGet(record, "deaths", PyIntValue(0)))
        recovered == Coerce(RecordGet(record, "recovered", PyIntValue(0)))
    IN  IF cases.exc # "none" THEN [exc |-> cases.exc, row |-> <<>>]
        ELSE IF deaths.exc # "none" THEN [exc |-> deaths.exc, row |-> <<>>]
        ELSE IF recovered.exc # "none" THEN [exc |-> recovered.exc, row |-> <<>>]
        ELSE [exc |-> "none",
              row |-> <<country, date, cases.val, deaths.val, recovered.val>>]

\* transform_data: an exception in a turn of the loop ends the call
RECURSIVE TransformData(_, _)
TransformData(data, i) ==
    IF i > Len(data) THEN [exc |-> "none", result |-> <<>>]
    ELSE LET this == TransformRecord(data[i])
             rest == TransformData(data, i + 1)
         IN  IF this.exc # "none" THEN [exc |-> this.exc, result |-> <<>>]
             ELSE IF rest.exc # "none" THEN rest
             ELSE [exc |-> "none", result |-> <<this.row>> \o rest.result]

\* record.get(key, default) of a vaccination record; a list has no get
VaccineGet(record, n, key, default) ==
    IF record.type = "tuple" THEN
        IF n <= Len(record.items) THEN [exc |-> "none", val |-> record.items[n]]
        ELSE [exc |-> "IndexError", val |-> default]
    ELSE IF record.type = "dict" THEN
        [exc |-> "none", val |-> IF key \in record.missing THEN default ELSE record.items[n]]
    ELSE [exc |-> "AttributeError", val |-> default]

\* one turn of the loop of transform_vaccine_data
TransformVaccineRecord(record) ==
    LET country == VaccineGet(record, 1, "country", "Unknown")
        date    == VaccineGet(record, 2, "date", NoDate)
        count   == VaccineGet(record, 3, "vaccinations", PyIntValue(0))
        \* except (TypeError, ValueError): vaccinations = 0
        vaccinations == IF count.exc # "none" THEN [exc |-> count.exc, val |-> 0]
                        ELSE Coerce(count.val)
    IN  IF country.exc # "none" THEN [exc |-> country.exc, row |-> <<>>]
        ELSE IF date.exc # "none" THEN [exc |-> date.exc, row |-> <<>>]
        ELSE IF vaccinations.exc # "none" THEN [exc |-> vaccinations.exc, row |-> <<>>]
        ELSE [exc |-> "none", row |-> <<country.val, date.val, vaccinations.val>>]

\* transform_vaccine_data
RECURSIVE TransformVaccineData(_, _)
TransformVaccineData(data, i) ==
    IF i > Len(data) THEN [exc |-> "none", result |-> <<>>]
    ELSE LET this == TransformVaccineRecord(data[i])
             rest == TransformVaccineData(data, i + 1)
         IN  IF this.exc # "none" THEN [exc |-> this.exc, result |-> <<>>]
             ELSE IF rest.exc # "none" THEN rest
             ELSE [exc |-> "none", result |-> <<this.row>> \o rest.result]

(***************************************************************************)
(* Specification of the transformer                                        *)
(***************************************************************************)
MaxRecords == 2

\* cases: 5, "abc", an infinite float (JSON 1e999) and -3.7
RawCases ==
    {PyIntValue(5), PyStr("abc"), PyValue("float", 0, "inf"), PyValue("float", -37, "")}

\* deaths: 2, or the key is absent;  recovered: 1 or None
RawRecords ==
    {PyDict(IF "country" \in m THEN "" ELSE "USA", Jan1, c, PyIntValue(2), r, m) :
        c \in RawCases, r \in {PyIntValue(1), PyNone},
        m \in SUBSET {"country", "deaths"}}

\* vaccination records: the fetcher's tuple with a count 3, a dict with and
\* without its count, a tuple that is too short and a list
RawVaccineRecords ==
    {PyTuple(<<"USA", Jan1, PyIntValue(3)>>),
     PyTuple(<<"USA", Jan2, PyStr("abc")>>),
     PyTuple(<<"USA", Jan1>>),
     PyVaccineDict("India", Jan1, PyStr("12"), {}),
     PyVaccineDict("India", Jan2, PyIntValue(0), {"vaccinations"}),
     PyList(<<"USA", Jan1, PyIntValue(3)>>)}

TransformInit ==
    /\ StoreInit
    /\ FetchIdle
    /\ CliIdle
    /\ DashIdle
    /\ raw \in [op : {"transform_data"}, data : SeqsUpTo(RawRecords, MaxRecords)]
               \cup [op : {"transform_vaccine_data"},
                     data : SeqsUpTo(RawVaccineRecords, MaxRecords)]
    /\ transformed = NotTransformed

TransformCases ==
    /\ raw.op = "transform_data"
    /\ transformed.op = "none"
    /\ LET out == TransformData(raw.data, 1)
       IN  transformed' = [op |-> "transform_data", exc |-> out.exc, result |-> out.result]
    /\ UNCHANGED <<notTransform, raw>>

TransformVaccine ==
    /\ raw.op = "transform_vaccine_data"
    /\ transformed.op = "none"
    /\ LET out == TransformVaccineData(raw.data, 1)
       IN  transformed' =
               [op |-> "transform_vaccine_data", exc |-> out.exc, result |-> out.result]
    /\ UNCHANGED <<notTransform, raw>>

TransformNext == TransformCases \/ TransformVaccine

SpecTransform == TransformInit /\ [][TransformNext]_vars

(***************************************************************************)
(* Properties of the transformer                                           *)
(***************************************************************************)
\* what a field must become: its integer when it is one (an int, an
\* integral string, a float cut towards zero), 0 when it is absent or
\* anything else
Expected(record, key) ==
    LET v == RecordGet(record, key, PyIntValue(0))
    IN  IF v.type = "int" THEN v.num
        ELSE IF v.type = "float" /\ v.text = "" THEN Truncate(v.num)
        ELSE IF v.type = "str" /\ \E l \in IntLiterals : l[1] = v.text
             THEN (CHOOSE l \in IntLiterals : l[1] = v.text)[2]
        ELSE 0

\* C8: transform_data gives one tuple per input record, in order; each of
\* cases, deaths and recovered is coerced on its own, a missing or
\* non-numeric field becoming 0 while the others keep their values;
\* country defaults to "Unknown"; no malformed field drops a record.
C8_EveryRecordTransformed ==
    transformed.op = "transform_data" =>
        /\ transformed.exc = "none"
        /\ Len(transformed.result) = Len(raw.data)
        /\ \A i \in 1..Len(raw.data) :
               transformed.result[i] =
                   <<IF "country" \in raw.data[i].missing THEN "Unknown"
                     ELSE raw.data[i].country,
                     raw.data[i].date,
                     Expected(raw.data[i], "cases"),
                     Expected(raw.data[i], "deaths"),
                     Expected(raw.data[i], "recovered")>>

\* C13: every tuple transform_data produces, which insert_data stores as it
\* is, has cases, deaths and recovered that are non-negative integers,
\* whatever the raw record holds (negative and fractional values included).
C13_CountsNonNegative ==
    (transformed.op = "transform_data" /\ transformed.exc = "none") =>
        \A i \in 1..Len(transformed.result) :
            /\ transformed.result[i][3] \in Nat
            /\ transformed.result[i][4] \in Nat
            /\ transformed.result[i][5] \in Nat

(***************************************************************************)
(* main.py: the commands that fetch and store                              *)
(***************************************************************************)
\* the methods class MySQLHandler defines
MySQLHandlerMethods == {"create_tables", "insert_data", "list_tables", "query", "close"}

\* db.<method>: the attribute lookup on the handler
Lookup(method) == IF method \in MySQLHandlerMethods THEN "none" ELSE "AttributeError"

\* a close that runs only when the try block returns
OnlyOnReturn(exc) == exc = "none"

\* "finally:" runs whether the try block returns or raises
Finally(exc) == TRUE

\* finally: db.close().  close() closes the connection when is_connected()
\* and does nothing on a connection that is already down.
\* closed: close() closed the connection; open: the connection is still
\* open when the command ends
CloseOutcome(exc, lost) ==
    LET performed == Finally(exc) /\ ~lost
    IN  [closed |-> performed, open |-> ~lost /\ ~performed]

\* main.fetch_data: fetch, transform, insert into covid_stats; finally close.
\* The command runs on a handler of its own, connected when it starts;
\* lost: its connection drops before the insert.
fetch_data(country, start_date, end_date, response, lost) ==
    LET f   == FetchData(country, start_date, end_date, response)
        t   == IF f.exc = "none" THEN TransformData(f.result, 1)
               ELSE [exc |-> f.exc, result |-> <<>>]
        ins == InsertOutcome("covid_stats", t.result, ~lost, 0)
        inserts == t.exc = "none" /\ Lookup("insert_data") = "none"
        exc == IF t.exc # "none" THEN t.exc
               ELSE IF ~inserts THEN Lookup("insert_data")
               ELSE ins.exc
    IN  /\ covid_stats' = IF inserts THEN ins.rows ELSE covid_stats
        /\ cli' = [cmd |-> "fetch_data", exc |-> exc,
                   fetched |-> f.result, transformed |-> t.result,
                   args |-> NoArgs, results |-> <<>>, lost |-> lost,
                   closed |-> CloseOutcome(exc, lost).closed,
                   open |-> CloseOutcome(exc, lost).open]
        /\ UNCHANGED <<vaccination_data, notCli>>

\* main.fetch_vaccine_data: fetch, transform, db.insert_data_vaccine; finally close
fetch_vaccine_data(country, start_date, end_date, response, lost) ==
    LET f   == FetchVaccineData(country, start_date, end_date, response)
        t   == IF f.exc = "none" THEN TransformVaccineData(f.result, 1)
               ELSE [exc |-> f.exc, result |-> <<>>]
        ins == InsertOutcome("vaccination_data", t.result, ~lost, 0)
        inserts == t.exc = "none" /\ Lookup("insert_data_vaccine") = "none"
        exc == IF t.exc # "none" THEN t.exc
               ELSE IF ~inserts THEN Lookup("insert_data_vaccine")
               ELSE ins.exc
    IN  /\ vaccination_data' = IF inserts THEN ins.rows ELSE vaccination_data
        /\ cli' = [cmd |-> "fetch_vaccine_data", exc |-> exc,
                   fetched |-> f.result, transformed |-> t.result,
                   args |-> NoArgs, results |-> <<>>, lost |-> lost,
                   closed |-> CloseOutcome(exc, lost).closed,
                   open |-> CloseOutcome(exc, lost).open]
        /\ UNCHANGED <<covid_stats, notCli>>

\* main.query_data: db.query of the statement of the query type, print the
\* table; finally close.  A country of None is sent as NULL and matches no row.
query_data(query_type, country, metric, n, lost) ==
    LET stmt   == [sql |-> query_type, metric |-> metric]
        params == IF query_type = "daily_trends"
                  THEN [type |-> "tuple", values |-> <<country>>]
                  ELSE IF query_type = "total_cases"
                  THEN [type |-> "None", values |-> <<>>]
                  ELSE [type |-> "tuple", values |-> <<n>>]
        error  == ExecuteError(stmt, params, ~lost)
    IN  \E rows \in QueryRows(stmt, params, error) :
            LET out == QueryOutcome(error, rows)
            IN  /\ cli' = [cmd |-> "query_data", exc |-> out.exc,
                           fetched |-> <<>>, transformed |-> <<>>,
                           args |-> [query_type |-> query_type, country |-> country,
                                     metric |-> metric, n |-> n],
                           results |-> out.result, lost |-> lost,
                           closed |-> CloseOutcome(out.exc, lost).closed,
                           open |-> CloseOutcome(out.exc, lost).open]
                /\ UNCHANGED <<covid_stats, vaccination_data, notCli>>

\* SUM(vaccinations) over rows (country, date, vaccinations)
RECURSIVE SumVaccinations(_)
SumVaccinations(rows) ==
    IF rows = {} THEN 0
    ELSE LET r == CHOOSE x \in rows : TRUE
         IN  r[3] + SumVaccinations(rows \ {r})

\* SELECT date, vaccinations FROM vaccination_data WHERE country = %s ORDER BY date
DailyVaccinations(country) ==
    LET pairs == {<<r[2], r[3]>> : r \in {x \in vaccination_data : x[1] = country}}
    IN  SortSeq(CHOOSE q \in [1..Cardinality(pairs) -> pairs] :
                    \A x \in pairs : \E i \in 1..Cardinality(pairs) : q[i] = x,
                LAMBDA a, b : a[1] # b[1] /\ DateLE(a[1], b[1]))

\* SELECT country, SUM(vaccinations) AS total_vaccinations FROM vaccination_data
\* GROUP BY country ORDER BY total_vaccinations DESC
TotalVaccinations ==
    LET groups == {<<c, SumVaccinations({r \in vaccination_data : r[1] = c})>> :
                       c \in {r[1] : r \in vaccination_data}}
        k == Cardinality(groups)
    IN  {q \in [1..k -> groups] :
            /\ \A x \in groups : \E i \in 1..k : q[i] = x
            /\ \A i \in 1..k, j \in 1..k : i < j => q[i][2] >= q[j][2]}

\* the failure of a statement of query_data_vaccine, "none" when it runs
VaccineExecuteError(query_type, n, isConnected) ==
    IF ~isConnected THEN "OperationalError"
    ELSE IF query_type = "top_n_countries_by_vaccines" /\ ~IsLimit(n) THEN "ProgrammingError"
    ELSE IF "vaccination_data" \notin existing THEN "ProgrammingError"
    ELSE "none"

VaccineQueryRows(query_type, country, n, error) ==
    IF error # "none" THEN {<<>>}
    ELSE IF query_type = "daily_trends" THEN {DailyVaccinations(country)}
    ELSE IF query_type = "total_vaccinations" THEN TotalVaccinations
    ELSE {Limit(q, n.num) : q \in TotalVaccinations}

\* main.query_data_vaccine: db.query of the statement, print; finally close
query_data_vaccine(query_type, country, n, lost) ==
    LET error == VaccineExecuteError(query_type, n, ~lost)
    IN  \E rows \in VaccineQueryRows(query_type, country, n, error) :
            LET out == QueryOutcome(error, rows)
            IN  /\ cli' = [cmd |-> "query_data_vaccine", exc |-> out.exc,
                           fetched |-> <<>>, transformed |-> <<>>,
                           args |-> [query_type |-> query_type, country |-> country,
                                     metric |-> "vaccinations", n |-> n],
                           results |-> out.result, lost |-> lost,
                           closed |-> CloseOutcome(out.exc, lost).closed,
                           open |-> CloseOutcome(out.exc, lost).open]
                /\ UNCHANGED <<covid_stats, vaccination_data, notCli>>

\* MySQLHandler.list_tables: SHOW TABLES, in the order of the names; [] when
\* the statement fails
ShowTables(isConnected) ==
    IF ~isConnected THEN <<>>
    ELSE (IF "covid_stats" \in existing THEN <<"covid_stats">> ELSE <<>>)
             \o (IF "vaccination_data" \in existing THEN <<"vaccination_data">> ELSE <<>>)

\* main.list_tables: print the tables; finally close
list_tables(lost) ==
    /\ cli' = [cmd |-> "list_tables", exc |-> "none",
               fetched |-> <<>>, transformed |-> <<>>, args |-> NoArgs,
               results |-> ShowTables(~lost), lost |-> lost,
               closed |-> CloseOutcome("none", lost).closed,
               open |-> CloseOutcome("none", lost).open]
    /\ UNCHANGED <<covid_stats, vaccination_data, notCli>>

\* the tables a command has dropped are gone with their rows
Dropped(tables) ==
    /\ existing' = existing \ tables
    /\ covid_stats' = IF "covid_stats" \in tables THEN {} ELSE covid_stats
    /\ vaccination_data' = IF "vaccination_data" \in tables THEN {} ELSE vaccination_data

\* main.drop_tables: DROP TABLE IF EXISTS for every listed table, commit;
\* finally close.  Neither the DROP nor the commit is inside an except: on a
\* lost connection list_tables gives [] and db.conn.commit() raises.
drop_tables(lost) ==
    LET tables == ShowTables(~lost)
        exc    == commit(~lost)
    IN  /\ Dropped({tables[i] : i \in 1..Len(tables)})
        /\ cli' = [cmd |-> "drop_tables", exc |-> exc,
                   fetched |-> <<>>, transformed |-> <<>>, args |-> NoArgs,
                   results |-> <<>>, lost |-> lost,
                   closed |-> CloseOutcome(exc, lost).closed,
                   open |-> CloseOutcome(exc, lost).open]
        /\ UNCHANGED notDrop

\* main.drop_table: DROP TABLE IF EXISTS {args.table}, commit; finally close.
\* db.cursor.execute raises on a lost connection.
run_drop_table(table, lost) ==
    LET exc == IF lost THEN "OperationalError" ELSE commit(~lost)
    IN  /\ Dropped(IF lost THEN {} ELSE {table})
        /\ cli' = [cmd |-> "drop_table", exc |-> exc,
                   fetched |-> <<>>, transformed |-> <<>>,
                   args |-> [NoArgs EXCEPT !.query_type = table], results |-> <<>>,
                   lost |-> lost,
                   closed |-> CloseOutcome(exc, lost).closed,
                   open |-> CloseOutcome(exc, lost).open]
        /\ UNCHANGED notDrop

(***************************************************************************)
(* Specification of the commands                                           *)
(***************************************************************************)
\* what the remote source answers to a command: a failure, or a timeline of
\* the dates "1/1/21" and "1/2/21" with the counts 1 and "abc"
CliDicts ==
    {q \in SeqsUpTo({DateKey(1, 1, 21, FALSE), DateKey(1, 2, 21, FALSE)}
                        \X UpstreamValues, MaxTimeline) :
        \A i, j \in 1..Len(q) : i # j => q[i][1] # q[j][1]}

CliCaseResponses ==
    {[kind |-> "http_error", timeline |-> NoTimeline]}
        \cup {[kind |-> "ok", timeline |-> [NoTimeline EXCEPT !.cases = d]] : d \in CliDicts}

CliVaccineResponses ==
    {[kind |-> "http_error", timeline |-> NoTimeline]}
        \cup {[kind |-> "ok", timeline |-> [NoTimeline EXCEPT !.flat = d]] : d \in CliDicts}

CliDateArgs ==
    {DateArg(2021, 1, 1, TRUE), DateArg(2021, 1, 2, TRUE), DateArg(2021, 1, 1, FALSE)}

CmdFetchData ==
    \E start_date \in CliDateArgs, end_date \in CliDateArgs,
       response \in CliCaseResponses, lost \in BOOLEAN :
        fetch_data("USA", start_date, end_date, response, lost)

CmdFetchVaccineData ==
    \E start_date \in CliDateArgs, end_date \in CliDateArgs,
       response \in CliVaccineResponses, lost \in BOOLEAN :
        fetch_vaccine_data("USA", start_date, end_date, response, lost)

\* query_type: the choices of the argument parser
QueryTypes == {"daily_trends", "total_cases", "top_n_countries_by_metric"}

MaxLimit == 2

\* --n: absent (None), negative, or 0..MaxLimit
LimitArgs == {PyNone, PyIntValue(-1)} \cup {PyIntValue(k) : k \in 0..MaxLimit}

\* --country: a country, or absent
CountryArgs == {"USA", "None"}

CmdQueryData ==
    \E query_type \in QueryTypes, country \in CountryArgs,
       metric \in Metrics \cup {"bogus"}, n \in LimitArgs, lost \in BOOLEAN :
        query_data(query_type, country, metric, n, lost)

\* query_type of query_data_vaccine: the choices of the argument parser
VaccineQueryTypes == {"daily_trends", "total_vaccinations", "top_n_countries_by_vaccines"}

CmdQueryDataVaccine ==
    \E query_type \in VaccineQueryTypes, country \in CountryArgs,
       n \in LimitArgs, lost \in BOOLEAN :
        query_data_vaccine(query_type, country, n, lost)

CmdListTables == \E lost \in BOOLEAN : list_tables(lost)

CmdDropTables == \E lost \in BOOLEAN : drop_tables(lost)

\* the table argument: a table of the schema, or a name that is no table
CmdDropTable ==
    \E table \in TableNames \cup {"other"}, lost \in BOOLEAN : run_drop_table(table, lost)

CliInit ==
    /\ StoreInit
    /\ FetchIdle
    /\ TransformIdle
    /\ CliIdle
    /\ DashIdle

CliNext == CmdFetchData \/ CmdFetchVaccineData

SpecCli == CliInit /\ [][CliNext]_vars

(***************************************************************************)
(* Specification of one run of main.py                                     *)
(***************************************************************************)
\* the database a run may meet: each table may have been dropped, and
\* covid_stats may hold rows
CommandTables == {{}, {<<"USA", Jan1, 1, 0, 0>>, <<"India", Jan1, 1, 0, 0>>}}

CommandInit ==
    /\ existing \in SUBSET TableNames
    /\ covid_stats \in (IF "covid_stats" \in existing THEN CommandTables ELSE {{}})
    /\ vaccination_data = {}
    /\ connected = TRUE
    /\ last = Called("none")
    /\ FetchIdle
    /\ TransformIdle
    /\ CliIdle
    /\ DashIdle

\* python main.py <command> ...: the process runs one command and ends
RunFetchData == cli = NoCommand /\ CmdFetchData

RunFetchVaccineData == cli = NoCommand /\ CmdFetchVaccineData

RunQueryData == cli = NoCommand /\ CmdQueryData

RunQueryDataVaccine == cli = NoCommand /\ CmdQueryDataVaccine

RunListTables == cli = NoCommand /\ CmdListTables

RunDropTables == cli = NoCommand /\ CmdDropTables

RunDropTable == cli = NoCommand /\ CmdDropTable

CommandNext ==
    \/ RunFetchData
    \/ RunFetchVaccineData
    \/ RunQueryData
    \/ RunQueryDataVaccine
    \/ RunListTables
    \/ RunDropTables
    \/ RunDropTable

SpecCommand == CommandInit /\ [][CommandNext]_vars

(***************************************************************************)
(* Properties of the commands                                              *)
(***************************************************************************)
\* C9: the fetch_vaccine_data command stores every (country, date,
\* vaccinations) record its fetch yields, unless the pair is already there,
\* in vaccination_data, as fetch_data does for covid_stats.
C9_VaccinePathStores ==
    cli.cmd = "fetch_vaccine_data" =>
        \A i \in 1..Len(cli.fetched) :
            \E row \in vaccination_data :
                /\ row[1] = cli.fetched[i].items[1]
                /\ row[2] = cli.fetched[i].items[2]

\* C14: every command that opened a MySQLHandler connection ends with the
\* connection no longer open, on every path, also when its fetch,
\* transform, insert, query or drop step raises; close() closes only a
\* connection that is still up.
C14_CommandClosesConnection ==
    cli.cmd # "none" =>
        /\ ~cli.open
        /\ cli.closed => ~cli.lost
        /\ (~cli.lost) => cli.closed

\* fetch_vaccine_data raised AttributeError, drop_table raised on a lost
\* connection: the first was closed by close(), the second was down already
C14_Witness ==
    \/ cli.cmd = "fetch_vaccine_data" /\ cli.exc = "AttributeError" /\ cli.closed
    \/ cli.cmd = "drop_table" /\ cli.exc = "OperationalError" /\ cli.lost /\ ~cli.closed

(***************************************************************************)
(* dashboard.py: the analytics tab, "Recovered Rate > 50%"                 *)
(***************************************************************************)
\* a float64 quotient of two integer sums: division by zero gives inf,
\* -inf or NaN, never an exception
FloatDiv(a, b) ==
    IF b = 0
    THEN [kind |-> IF a > 0 THEN "inf" ELSE IF a < 0 THEN "-inf" ELSE "nan",
          num |-> 0, den |-> 1]
    ELSE IF b > 0 THEN [kind |-> "finite", num |-> a, den |-> b]
    ELSE [kind |-> "finite", num |-> -a, den |-> -b]

\* x * 100
FloatTimes(x, n) == [x EXCEPT !.num = x.num * n]

\* rate > 50: a comparison with NaN is false
FloatGreater(x, n) ==
    IF x.kind = "finite" THEN x.num > n * x.den ELSE x.kind = "inf"

RateThreshold == 50

\* df.groupby("country").agg({"recovered": "sum", "cases": "sum"}), with
\* rate = recovered / cases * 100
Recovery(df) ==
    {[country |-> c,
      recovered |-> SumMetric({r \in df : r[1] = c}, "recovered"),
      cases |-> SumMetric({r \in df : r[1] = c}, "cases"),
      rate |-> FloatTimes(FloatDiv(SumMetric({r \in df : r[1] = c}, "recovered"),
                                   SumMetric({r \in df : r[1] = c}, "cases")), 100)] :
        c \in {r[1] : r \in df}}

\* recovery[recovery["rate"] > 50]
RecoveredRateOverThreshold(df) ==
    {g \in Recovery(df) : FloatGreater(g.rate, RateThreshold)}

(***************************************************************************)
(* Specification of the dashboard                                          *)
(***************************************************************************)
MaxCount == 2

\* the tables the dashboard may load: one row at most per (country, date)
DashKeys == {<<"USA", Jan1>>, <<"USA", Jan2>>, <<"India", Jan1>>}

DashRows ==
    {<<k[1], k[2], c, 0, r>> : k \in DashKeys, c \in 0..MaxCount, r \in 0..1}

DashTables ==
    {t \in SUBSET DashRows :
        \A r1, r2 \in t : UniqueKey(r1) = UniqueKey(r2) => r1 = r2}

DashInit ==
    /\ covid_stats \in DashTables
    /\ vaccination_data = {}
    /\ existing = TableNames
    /\ connected = TRUE
    /\ last = Called("none")
    /\ FetchIdle
    /\ TransformIdle
    /\ CliIdle
    /\ DashIdle

\* the block is rendered when the table has rows
ShowRecoveredRate ==
    /\ dash.op = "none"
    /\ covid_stats # {}
    /\ dash' = [op |-> "recovered_rate",
                result |-> RecoveredRateOverThreshold(covid_stats)]
    /\ UNCHANGED notDash

DashNext == ShowRecoveredRate

SpecDash == DashInit /\ [][DashNext]_vars

(***************************************************************************)
(* Properties of the dashboard                                             *)
(***************************************************************************)
\* C10: the recovered-rate block leaves out every country whose total
\* cases is 0 and shows exactly the countries with total cases > 0 whose
\* rate recovered / cases * 100 is greater than 50; a rate of exactly 50
\* is left out.
C10_RecoveredRateGuarded ==
    dash.op = "recovered_rate" =>
        {g.country : g \in dash.result} =
            {c \in {r[1] : r \in covid_stats} :
                LET cases     == SumMetric({r \in covid_stats : r[1] = c}, "cases")
                    recovered == SumMetric({r \in covid_stats : r[1] = c}, "recovered")
                IN  cases > 0 /\ recovered * 100 > RateThreshold * cases}

(***************************************************************************)
(* Specification of the query command                                      *)
(***************************************************************************)
\* the contents of covid_stats a query may meet
QueryTables == DashTables

QueryInit ==
    /\ covid_stats \in QueryTables
    /\ vaccination_data = {}
    /\ existing = TableNames
    /\ connected = TRUE
    /\ last = Called("none")
    /\ FetchIdle
    /\ TransformIdle
    /\ CliIdle
    /\ DashIdle

QueryNext == RunQueryData

SpecQuery == QueryInit /\ [][QueryNext]_vars

(***************************************************************************)
(* Properties of the query command                                         *)
(***************************************************************************)
\* the rows of a top_n_countries_by_metric query with a limit N >= 0
IsTopN ==
    /\ cli.cmd = "query_data"
    /\ cli.args.query_type = "top_n_countries_by_metric"
    /\ IsLimit(cli.args.n)

\* C11 as stated: for every table, metric and N >= 0,
\* top_n_countries_by_metric returns at most N rows, one per country, whose
\* summed metric is strictly descending from each row to the next.
C11_TopNStrictlyDescending ==
    IsTopN =>
        /\ Len(cli.results) <= cli.args.n.num
        /\ \A i, j \in 1..Len(cli.results) : i # j => cli.results[i][1] # cli.results[j][1]
        /\ \A i \in 1..(Len(cli.results) - 1) : cli.results[i][2] > cli.results[i + 1][2]

\* C11, amended: top_n_countries_by_metric returns at most N rows, one per
\* country, each with the country's summed metric, in descending order in
\* which equal totals may follow each other; no country left out has a
\* greater total than one returned.
C11_TopNDescending ==
    IsTopN =>
        LET total(c) == SumMetric({r \in covid_stats : r[1] = c}, cli.args.metric)
            shown    == {cli.results[i][1] : i \in 1..Len(cli.results)}
        IN  /\ cli.exc = "none"
            /\ Len(cli.results) <= cli.args.n.num
            /\ \A i, j \in 1..Len(cli.results) :
                   i # j => cli.results[i][1] # cli.results[j][1]
            /\ \A i \in 1..Len(cli.results) :
                   /\ cli.results[i][1] \in {r[1] : r \in covid_stats}
                   /\ cli.args.metric \in Metrics
                   /\ cli.results[i][2] = total(cli.results[i][1])
            /\ \A i \in 1..(Len(cli.results) - 1) :
                   cli.results[i][2] >= cli.results[i + 1][2]
            /\ cli.args.metric \in Metrics =>
                   \A c \in {r[1] : r \in covid_stats} \ shown :
                       \A i \in 1..Len(cli.results) : total(c) <= cli.results[i][2]

\* a query with N = 1 over a table of two countries returned the one with
\* the greater total of cases
C11_Witness ==
    /\ IsTopN
    /\ cli.args.n.num = 1
    /\ cli.args.metric = "cases"
    /\ Cardinality({r[1] : r \in covid_stats}) = 2
    /\ Len(cli.results) = 1
    /\ \E c \in {r[1] : r \in covid_stats} :
           SumMetric({r \in covid_stats : r[1] = c}, "cases") < cli.results[1][2]
====
